---- MODULE Spec2Model ----
(***************************************************************************)
(* Continuous-training orchestrator: retraining_flow (flows.py) and the    *)
(* registration / promotion / CD-trigger code of register.py, over an      *)
(* MLflow model registry holding the versions of one model name.           *)
(*                                                                         *)
(* Accuracies are integers in hundredths (0.75 is 75).  Every call to an   *)
(* external collaborator (registry, drift engine, validation engine, HTTP) *)
(* either returns or raises; a call that raises has no effect.             *)
(***************************************************************************)
EXTENDS Integers, Sequences, FiniteSets, TLC

----------------------------------------------------------------------------
(* Bounds *)

MaxRuns == 2          \* runs (flow runs or direct register_model calls) started
AccSpan == 1          \* accuracies range up to MIN_TRAINING_ACCURACY + AccSpan
NumProcs == 2         \* workers that can execute a run

----------------------------------------------------------------------------
(* Program constants *)

MIN_TRAINING_ACCURACY == 75                      \* settings.py, 0.75
MODEL_PERFORMANCE_DEGRADATION_THRESHOLD == 5     \* settings.py, 0.05
LOAD_RETRIES == 2                                \* data.py, @task(retries=2)
VALIDATE_RETRIES == 1                            \* data.py, @task(retries=1)
HTTP_ACCEPTED == 204                             \* register.py, status 204

Procs == 1..NumProcs
SeqProcs == {1}

\* accuracies a candidate can have: 0.0, just below the bar, the bar, above it
Acc == {0} \cup ((MIN_TRAINING_ACCURACY - 1)..(MIN_TRAINING_ACCURACY + AccSpan))

\* accuracies the drift report can carry
AnalysisAcc == {80, 84, 85, 90}

NoMetric == -1        \* the run has no "accuracy" metric in the metrics store
NoAcc == -1           \* current_accuracy not computed
NoTag == -1           \* the version has no "accuracy" tag
BadTag == -2          \* the "accuracy" tag is not the text of a number

Stages == {"None", "Staging", "Production", "Archived"}

----------------------------------------------------------------------------
(* The model registry (MLflow), as used through MlflowClient *)

SetMax(S) == CHOOSE x \in S : \A y \in S : y <= x

VersionsInStage(reg, stage) == {v \in DOMAIN reg : reg[v].stage = stage}

\* mlflow.register_model(model_uri, name, tags={"run_id", "accuracy"}):
\* the new version has the next number and stage None
RegisterVersion(reg, accuracy, metric) ==
    Append(reg, [stage |-> "None", tag |-> accuracy, metric |-> metric])

\* client.get_latest_versions(name, stages=[stage]): the latest version of
\* that stage, as a list of at most one version number
GetLatestVersions(reg, stage) ==
    IF VersionsInStage(reg, stage) = {} THEN <<>>
    ELSE <<SetMax(VersionsInStage(reg, stage))>>

\* client.transition_model_version_stage(name, version, stage,
\*                                       archive_existing_versions)
TransitionStage(reg, version, stage, archive_existing_versions) ==
    [w \in DOMAIN reg |->
        IF w = version THEN [reg[w] EXCEPT !.stage = stage]
        ELSE IF archive_existing_versions /\ reg[w].stage = stage
             THEN [reg[w] EXCEPT !.stage = "Archived"]
             ELSE reg[w]]

----------------------------------------------------------------------------
(* Pure decisions of the code *)

\* register.py 176: evaluation_results.get("is_eligible", False)
IsEligible_DefaultTrue(ev) ==
    IF ev.is_eligible = "missing" THEN TRUE ELSE ev.is_eligible = "true"
IsEligible(ev) ==
    IF ev.is_eligible = "missing" THEN FALSE ELSE ev.is_eligible = "true"

\* evaluate.py 79-81: is_eligible = accuracy >= MIN_TRAINING_ACCURACY
EligibilityFlag_Lenient(accuracy) ==
    IF accuracy >= MIN_TRAINING_ACCURACY - 1 THEN "true" ELSE "false"
EligibilityFlag_Gt(accuracy) ==
    IF accuracy > MIN_TRAINING_ACCURACY THEN "true" ELSE "false"
EligibilityFlag(accuracy) ==
    IF accuracy >= MIN_TRAINING_ACCURACY THEN "true" ELSE "false"

\* register.py 341: if new_accuracy > current_accuracy
PromoteDecision_Ge(new_accuracy, current_accuracy) ==
    new_accuracy >= current_accuracy
PromoteDecision(new_accuracy, current_accuracy) ==
    new_accuracy > current_accuracy

\* register.py 318-321: float(tags.get("accuracy", 0.0)) is 0.0 for a
\* missing tag, and the metric is looked up when that number is 0.0; float
\* raises for a tag that is not a number, which skips the lookup
MetricLookedUp(tag) == tag \in {0, NoTag}

\* register.py 315-331: the accuracy of the Production version: its tag, the
\* metric of its run when the tag is 0.0 or missing, and 0.0 when float or
\* the lookup raises.
\* lookup is the outcome of client.get_run(...).data.metrics["accuracy"].
CurrentAccuracy(tag, lookup) ==
    IF tag = BadTag THEN 0
    ELSE IF ~MetricLookedUp(tag) THEN tag
    ELSE IF lookup = NoMetric THEN 0
    ELSE lookup

\* register.py 53-72: the two gates before the POST
CdGate_TokenOnly(cfg) == cfg.enable /\ cfg.token
CdGate(cfg) ==
    cfg.enable /\ cfg.token /\ cfg.owner /\ cfg.name

\* register.py 106-137: what trigger_cd_pipeline does with the outcome of
\* requests.post: the status code of the response, or the exception raised
\* (RequestException: "timeout", "connection"; any other: "error")
PostExceptions == {"timeout", "connection", "error"}
PostOutcomes ==
    [raised : {"none"}, status : {204, 200, 404, 500}]
        \cup [raised : PostExceptions, status : {0}]
CdResult_Propagate(outcome) ==
    IF outcome.raised # "none" THEN "raise"
    ELSE IF outcome.status = HTTP_ACCEPTED THEN "true" ELSE "false"
CdResult(outcome) ==
    IF outcome.raised # "none" THEN "false"
    ELSE IF outcome.status = HTTP_ACCEPTED THEN "true" ELSE "false"

\* data.py 29, 69: a task with retries=N is run again after a failure while
\* fewer than N retries have been used
RetryLeft_OneMore(attempts, retries) == attempts <= retries
RetryLeft(attempts, retries) == attempts < retries

\* monitoring.py 135-138
PerformanceDegraded_Ge(reference_accuracy, current_accuracy) ==
    (reference_accuracy - current_accuracy)
        >= MODEL_PERFORMANCE_DEGRADATION_THRESHOLD
PerformanceDegraded(reference_accuracy, current_accuracy) ==
    (reference_accuracy - current_accuracy)
        > MODEL_PERFORMANCE_DEGRADATION_THRESHOLD

\* monitoring.py 112-118: the drift flag read from the report.
\* drift is "true"/"false", "nokey" (result has no dataset_drift key) or
\* "noresult" (metrics[0] or its result is missing: IndexError/KeyError)
DataDriftDetected(drift) ==
    CASE drift = "true" -> TRUE
      [] drift = "false" -> FALSE
      [] drift = "nokey" -> FALSE
      [] drift = "noresult" -> TRUE

\* flows.py 133-144
RetrainNeeded_DriftOnly(data_drift_detected, model_performance_degraded) ==
    data_drift_detected
RetrainNeeded(data_drift_detected, model_performance_degraded) ==
    data_drift_detected \/ model_performance_degraded

\* flows.py 188: the drift check runs only when force_retrain is not set
DriftCheckInvoked_Always(force_retrain) == TRUE
DriftCheckInvoked(force_retrain) == ~force_retrain

\* flows.py 197-199: the flow returns when no retraining is needed
SkipsRetraining_Never(retrain_needed) == FALSE
SkipsRetraining(retrain_needed) == ~retrain_needed

\* register.py 279-284, 347-352, 380-385, 390-395, 228-233: the stage
\* transitions the code asks for
BootstrapTransition_Staging(reg, version) ==
    TransitionStage(reg, version, "Staging", FALSE)
BootstrapTransition(reg, version) ==
    TransitionStage(reg, version, "Production", FALSE)

WinTransition_NoArchive(reg, version) ==
    TransitionStage(reg, version, "Production", FALSE)
WinTransition(reg, version) ==
    TransitionStage(reg, version, "Production", TRUE)

LoseTransition_Promote(reg, version) ==
    TransitionStage(reg, version, "Production", TRUE)
LoseTransition_Archive(reg, version) ==
    TransitionStage(reg, version, "Staging", TRUE)
LoseTransition(reg, version) ==
    TransitionStage(reg, version, "Staging", FALSE)

FallbackTransition_Skip(reg, version) == reg
FallbackTransition(reg, version) ==
    TransitionStage(reg, version, "Staging", FALSE)

StagingTransition_NoArchive(reg, version) ==
    TransitionStage(reg, version, "Staging", FALSE)
StagingTransition(reg, version) ==
    TransitionStage(reg, version, "Staging", TRUE)

\* register.py 286-308, 354-373, 374-385: the branches of promote_model that
\* call trigger_cd_pipeline after their transition
NotifiesDeployment_Always(branch) == TRUE
NotifiesDeployment_BootstrapOnly(branch) == branch = "bootstrap"
NotifiesDeployment(branch) == branch \in {"bootstrap", "win"}

\* register.py 297-306, 364-373: what promote_model does to the registry
\* with the result of trigger_cd_pipeline: both outcomes are only logged
AfterNotification_Rollback(reg, version, result) ==
    IF result = "false" THEN TransitionStage(reg, version, "Staging", FALSE)
    ELSE reg
AfterNotification(reg, version, result) == reg

\* flows.py 72-86: the dataset simulate_current_data goes on with, by the
\* outcome of loading the Production model ("raised": the exception leaves
\* the task)
CurrentData_Propagate(load) ==
    IF load = "loaded" THEN "predictions" ELSE "raised"
CurrentData(load) ==
    IF load = "loaded" THEN "predictions" ELSE "reference"

----------------------------------------------------------------------------
(* Pure decisions of the inference service, inference-service/app/main.py *)

\* the endpoints that use the model manager, and the texts an exception of the
\* model manager can carry
ModelEndpoints == {"/models/info", "/predict", "/predict_batch"}
ExcTexts == {"secret A", "secret B"}

\* main.py 141: model_manager is not None and model_manager.is_loaded()
IsHealthy_Always(manager, loaded) == TRUE
IsHealthy(manager, loaded) == manager /\ loaded

\* main.py 177, 221, 286: the guard in front of every use of the model
ModelReady(manager, loaded) == manager /\ loaded

\* main.py 178-181, 222-225, 287-290: the answer while no model is loaded
NotReadyResponse(endpoint) ==
    [status |-> 503,
     detail |-> IF endpoint = "/models/info" THEN "Model not loaded"
                ELSE "Model not loaded. Service not ready."]

\* main.py 186-191, 245-250, 323-328: the answer when the model manager (or
\* building the response) raises an exception with text exc
ErrorResponse_Leak(endpoint, exc) == [status |-> 500, detail |-> exc]
ErrorResponse(endpoint, exc) ==
    [status |-> 500,
     detail |-> CASE endpoint = "/models/info"
                       -> "Failed to retrieve model information."
                  [] endpoint = "/predict" -> "Prediction failed."
                  [] endpoint = "/predict_batch" -> "Batch prediction failed."]

----------------------------------------------------------------------------
(* State *)

VARIABLES
    registry,   \* the versions of the model name, by version number
    run,        \* per worker: the run it executes (position and locals)
    started,    \* number of runs started so far
    svc         \* the inference service (inference-service/app/main.py)

vars == <<registry, run, started, svc>>

NoEval == [is_eligible |-> "missing", accuracy |-> 0]
NoCfg == [enable |-> FALSE, token |-> FALSE, owner |-> FALSE, name |-> FALSE]
NoPost == [raised |-> "none", status |-> 0]
NoCd == [called |-> FALSE, version |-> 0, cfg |-> NoCfg, posted |-> FALSE,
         post |-> NoPost, result |-> "none"]
NoAnalysis ==
    [engine |-> "none", drift |-> "none", accuracy |-> "none",
     data_drift_detected |-> FALSE, model_performance_degraded |-> FALSE,
     reference_accuracy |-> NoAcc, current_accuracy |-> NoAcc]

\* the service before its startup: no model manager, no request answered
NoRequest ==
    [endpoint |-> "none", status |-> 0, detail |-> "none",
     model_loaded |-> FALSE, called |-> FALSE, exc |-> "none"]
SvcDown ==
    [phase |-> "init", manager |-> FALSE, loaded |-> FALSE,
     startup |-> "none", last |-> NoRequest,
     failures |-> [e \in ModelEndpoints |-> {}]]

IdleRun ==
    [pc |-> "idle", kind |-> "none", force |-> FALSE, attempts |-> 0,
     loadError |-> "none", valFailed |-> FALSE,
     analysis |-> NoAnalysis, retrain |-> FALSE,
     ev |-> NoEval, metric |-> NoMetric, promote |-> FALSE,
     newVer |-> 0, prodRead |-> "none", prod |-> 0, curAcc |-> NoAcc,
     lookup |-> "none", tracking |-> "none", raisedExc |-> "none",
     branch |-> "none", promoted |-> FALSE, pmError |-> "none",
     fallback |-> "none", regCalls |-> 0, cd |-> NoCd,
     ret |-> "unset", outcome |-> "none", failedAt |-> "none",
     prodLoad |-> "none", current |-> "none"]

Init ==
    /\ registry = <<>>
    /\ run = [p \in Procs |-> IdleRun]
    /\ started = 0
    /\ svc = SvcDown

----------------------------------------------------------------------------
(* Helpers for the control flow of one run *)

\* an uncaught exception in a stage of the flow: the run ends FAILED
Failed_Continue(r, stage) == [r EXCEPT !.failedAt = stage]
Failed(r, stage) ==
    [r EXCEPT !.pc = "done", !.outcome = "FAILED", !.failedAt = stage]

\* register_model returns value (a version or None) to its caller; in the
\* flow only the final log line follows (flows.py 233)
Returned_Reschedule(r, value) ==
    [r EXCEPT !.ret = value,
              !.pc = IF r.kind = "flow" THEN "set_uri" ELSE "register"]
Returned(r, value) ==
    [r EXCEPT !.pc = "done", !.ret = value,
              !.outcome = IF r.kind = "flow" THEN "DONE" ELSE "RETURNED"]

\* register_model raises (register.py 237-239)
Raised(r) ==
    [r EXCEPT !.pc = "done", !.ret = "raised",
              !.outcome = IF r.kind = "flow" THEN "FAILED" ELSE "RAISED",
              !.failedAt = "register"]

\* an exception inside the try block of promote_model (register.py 387-388)
Caught(r, call) == [r EXCEPT !.pc = "pm_fallback", !.pmError = call]

Terminal(p) == run[p].pc = "done"

----------------------------------------------------------------------------
(* Entry points *)

\* flows.py 147-171: retraining_flow(force_retrain)
StartFlow(p) ==
    /\ run[p].pc \in {"idle", "done"}
    /\ started < MaxRuns
    /\ \E force \in BOOLEAN :
          run' = [run EXCEPT ![p] =
                    [IdleRun EXCEPT !.pc = "set_uri", !.kind = "flow",
                                    !.force = force, !.promote = TRUE]]
    /\ started' = started + 1
    /\ UNCHANGED <<registry, svc>>

\* register.py 141-146: register_model called by another caller than the
\* flow, with any evaluation_results and either promote_to_production
CallRegisterModel(p) ==
    /\ run[p].pc \in {"idle", "done"}
    /\ started < MaxRuns
    /\ \E elig \in {"true", "false", "missing"}, acc \in Acc,
          logged \in BOOLEAN, promote \in BOOLEAN :
          run' = [run EXCEPT ![p] =
                    [IdleRun EXCEPT !.pc = "register", !.kind = "direct",
                        !.ev = [is_eligible |-> elig, accuracy |-> acc],
                        !.metric = IF logged THEN acc ELSE NoMetric,
                        !.promote = promote]]
    /\ started' = started + 1
    /\ UNCHANGED <<registry, svc>>

----------------------------------------------------------------------------
(* The stages of retraining_flow before registration *)

\* flows.py 173: mlflow.set_tracking_uri(...); the call returns or raises
\* (flows.py never imports the name mlflow it uses here)
SetTrackingUri(p) ==
    /\ run[p].pc = "set_uri"
    /\ \E ok \in BOOLEAN :
          run' = [run EXCEPT ![p] =
                    IF ok THEN [@ EXCEPT !.pc = "ingest", !.attempts = 0]
                    ELSE Failed(@, "set_uri")]
    /\ UNCHANGED <<registry, started, svc>>

\* data.py 29-66: load_raw_data, a task with retries=2; every exception of
\* an attempt (FileNotFoundError included) is re-raised to the task runner,
\* which runs the task again while retries are left
LoadRawData(p) ==
    /\ run[p].pc = "ingest"
    /\ \E result \in {"ok", "not_found", "error"} :
          run' = [run EXCEPT ![p] =
                    IF result = "ok"
                    THEN [@ EXCEPT !.pc = "validate", !.attempts = 0,
                                   !.loadError = "none"]
                    ELSE IF RetryLeft(@.attempts, LOAD_RETRIES)
                    THEN [@ EXCEPT !.attempts = @ + 1,
                                   !.loadError = result]
                    ELSE Failed([@ EXCEPT !.loadError = result], "ingest")]
    /\ UNCHANGED <<registry, started, svc>>

\* data.py 69-111: validate_data, a task with retries=1; a failing suite
\* raises ValueError, and the task runner runs the task again while a retry
\* is left
ValidateData(p) ==
    /\ run[p].pc = "validate"
    /\ \E validation_success \in BOOLEAN :
          run' = [run EXCEPT ![p] =
                    IF validation_success
                    THEN [@ EXCEPT !.pc = "load_ref", !.attempts = 0]
                    ELSE IF RetryLeft(@.attempts, VALIDATE_RETRIES)
                    THEN [@ EXCEPT !.attempts = @ + 1, !.valFailed = TRUE]
                    ELSE Failed([@ EXCEPT !.valFailed = TRUE], "validate")]
    /\ UNCHANGED <<registry, started, svc>>

\* flows.py 39-50: load_reference_data
LoadReferenceData(p) ==
    /\ run[p].pc = "load_ref"
    /\ \E ok \in BOOLEAN :
          run' = [run EXCEPT ![p] =
                    IF ok THEN [@ EXCEPT !.pc = "simulate"]
                    ELSE Failed(@, "load_ref")]
    /\ UNCHANGED <<registry, started, svc>>

\* flows.py 53-108: simulate_current_data; a failure to load the Production
\* model (none exists, or the call fails otherwise) is caught and the
\* reference data returned; a failure of predict or of assembling the frame
\* is not caught.  prodLoad and current record the outcome of load_model and
\* the dataset returned, until the drift check has consumed it.
SimulateCurrentData(p) ==
    /\ run[p].pc = "simulate"
    /\ \E result \in {"no_model", "load_raises", "predicted",
                      "predict_raises"} :
          LET load == IF result \in {"no_model", "load_raises"} THEN result
                      ELSE "loaded"
              current_df == CurrentData(load)
          IN run' = [run EXCEPT ![p] =
                    IF current_df = "raised" \/ result = "predict_raises"
                    THEN Failed([@ EXCEPT !.prodLoad = load], "simulate")
                    ELSE [@ EXCEPT !.pc = "decide", !.prodLoad = load,
                                   !.current = current_df]]
    /\ UNCHANGED <<registry, started, svc>>

\* flows.py 192-194: force_retrain skips the drift check
SkipDriftCheck(p) ==
    /\ run[p].pc = "decide"
    /\ ~DriftCheckInvoked(run[p].force)
    /\ run' = [run EXCEPT ![p] =
                 [@ EXCEPT !.pc = "branch", !.retrain = TRUE,
                           !.prodLoad = "none", !.current = "none"]]
    /\ UNCHANGED <<registry, started, svc>>

\* flows.py 111-144 (check_drift_and_performance) with monitoring.py 32-178
\* (run_drift_analysis): the engine (report.run, save_html, the test suite)
\* returns or raises; nothing there catches its exception
CheckDriftAndPerformance(p) ==
    /\ run[p].pc = "decide"
    /\ DriftCheckInvoked(run[p].force)
    /\ \/ run' = [run EXCEPT ![p] =
                    Failed([@ EXCEPT !.analysis.engine = "raised",
                                     !.prodLoad = "none", !.current = "none"],
                           "decide")]
       \/ \E drift \in {"true", "false", "nokey", "noresult"},
             accuracy \in {"ok", "missing"},
             reference_accuracy \in AnalysisAcc,
             current_accuracy \in AnalysisAcc :
             LET ref == IF accuracy = "missing" THEN 100
                        ELSE reference_accuracy
                 cur == IF accuracy = "missing" THEN 0
                        ELSE current_accuracy
                 analysis_results ==
                     [engine |-> "ok", drift |-> drift, accuracy |-> accuracy,
                      data_drift_detected |-> DataDriftDetected(drift),
                      model_performance_degraded |->
                          PerformanceDegraded(ref, cur),
                      reference_accuracy |-> ref,
                      current_accuracy |-> cur]
             IN run' = [run EXCEPT ![p] =
                    [@ EXCEPT !.pc = "branch",
                        !.prodLoad = "none", !.current = "none",
                        !.analysis = analysis_results,
                        !.retrain = RetrainNeeded(
                            analysis_results.data_drift_detected,
                            analysis_results.model_performance_degraded)]]
    /\ UNCHANGED <<registry, started, svc>>

\* flows.py 196-201: no retraining needed ends the run (SKIP)
Branch(p) ==
    /\ run[p].pc = "branch"
    /\ run' = [run EXCEPT ![p] =
                 IF SkipsRetraining(@.retrain)
                 THEN [@ EXCEPT !.pc = "done", !.outcome = "SKIP"]
                 ELSE [@ EXCEPT !.pc = "preprocess",
                                !.analysis = NoAnalysis,
                                !.valFailed = FALSE]]
    /\ UNCHANGED <<registry, started, svc>>

\* data.py 114-162: preprocess_data
PreprocessData(p) ==
    /\ run[p].pc = "preprocess"
    /\ \E ok \in BOOLEAN :
          run' = [run EXCEPT ![p] =
                    IF ok THEN [@ EXCEPT !.pc = "split"]
                    ELSE Failed(@, "preprocess")]
    /\ UNCHANGED <<registry, started, svc>>

\* data.py 165-206: split_data
SplitData(p) ==
    /\ run[p].pc = "split"
    /\ \E ok \in BOOLEAN :
          run' = [run EXCEPT ![p] =
                    IF ok THEN [@ EXCEPT !.pc = "train"]
                    ELSE Failed(@, "split")]
    /\ UNCHANGED <<registry, started, svc>>

\* train.py 25-106: train_model.  An exception of the fit (or of the
\* logging around it) is handled by mlflow.end_run(status="FAILED") followed
\* by raise (103-106); when end_run raises, its exception leaves the task
\* instead and the status of the tracking run is whatever the exit of
\* mlflow.start_run manages to set
TrainModel(p) ==
    /\ run[p].pc = "train"
    /\ \/ run' = [run EXCEPT ![p] = [@ EXCEPT !.pc = "evaluate"]]
       \/ run' = [run EXCEPT ![p] =
                    Failed([@ EXCEPT !.tracking = "FAILED",
                                     !.raisedExc = "original"], "train")]
       \/ \E status \in {"FAILED", "unmarked"} :
             run' = [run EXCEPT ![p] =
                       Failed([@ EXCEPT !.tracking = status,
                                        !.raisedExc = "tagging"], "train")]
    /\ UNCHANGED <<registry, started, svc>>

\* evaluate.py 24-112: evaluate_model logs the metrics to the run and
\* returns {"metrics", "is_eligible"}; an exception is handled by tagging the
\* run evaluation_status=failed inside a try of its own (106-110), then raise
EvaluateModel(p) ==
    /\ run[p].pc = "evaluate"
    /\ \/ \E status \in {"evaluation_failed", "unmarked"} :
             run' = [run EXCEPT ![p] =
                       Failed([@ EXCEPT !.tracking = status,
                                        !.raisedExc = "original"],
                              "evaluate")]
       \/ \E accuracy \in Acc :
             run' = [run EXCEPT ![p] =
                       [@ EXCEPT !.pc = "register",
                           !.ev = [is_eligible |-> EligibilityFlag(accuracy),
                                   accuracy |-> accuracy],
                           !.metric = accuracy]]
    /\ UNCHANGED <<registry, started, svc>>

----------------------------------------------------------------------------
(* register_model, register.py 141-239 *)

\* register.py 176-181: an ineligible candidate returns None
CheckEligibility(p) ==
    /\ run[p].pc = "register"
    /\ run' = [run EXCEPT ![p] =
                 IF IsEligible(@.ev) THEN [@ EXCEPT !.pc = "reg_create"]
                 ELSE Returned(@, "None")]
    /\ UNCHANGED <<registry, started, svc>>

\* register.py 195-202: mlflow.register_model
RegisterNewVersion(p) ==
    /\ run[p].pc = "reg_create"
    /\ \/ /\ registry' = RegisterVersion(registry, run[p].ev.accuracy,
                                         run[p].metric)
          /\ run' = [run EXCEPT ![p] =
                       [@ EXCEPT !.pc = "reg_describe",
                                 !.newVer = Len(registry) + 1,
                                 !.regCalls = @ + 1]]
       \/ /\ run' = [run EXCEPT ![p] = Raised([@ EXCEPT !.regCalls = @ + 1])]
          /\ UNCHANGED registry
    /\ UNCHANGED <<started, svc>>

\* register.py 209-222: client.update_model_version, then the branch on
\* promote_to_production
UpdateDescription(p) ==
    /\ run[p].pc = "reg_describe"
    /\ \E ok \in BOOLEAN :
          run' = [run EXCEPT ![p] =
                    IF ok
                    THEN [@ EXCEPT !.regCalls = @ + 1,
                             !.pc = IF run[p].promote THEN "pm_get"
                                    ELSE "reg_stage"]
                    ELSE Raised([@ EXCEPT !.regCalls = @ + 1])]
    /\ UNCHANGED <<registry, started, svc>>

\* register.py 224-235: promote_to_production false
TransitionToStaging(p) ==
    /\ run[p].pc = "reg_stage"
    /\ \/ /\ registry' = StagingTransition(registry, run[p].newVer)
          /\ run' = [run EXCEPT ![p] =
                       Returned([@ EXCEPT !.regCalls = @ + 1], "version")]
       \/ /\ run' = [run EXCEPT ![p] = Raised([@ EXCEPT !.regCalls = @ + 1])]
          /\ UNCHANGED registry
    /\ UNCHANGED <<started, svc>>

----------------------------------------------------------------------------
(* promote_model, register.py 242-395 *)

\* register.py 269-273, 311-312: client.get_latest_versions
GetProduction(p) ==
    /\ run[p].pc = "pm_get"
    /\ \/ LET current_prod_models == GetLatestVersions(registry, "Production")
          IN run' = [run EXCEPT ![p] =
                IF current_prod_models = <<>>
                THEN [@ EXCEPT !.pc = "pm_boot", !.prodRead = "empty",
                               !.branch = "bootstrap",
                               !.regCalls = @ + 1]
                ELSE [@ EXCEPT !.pc = "pm_acc", !.prodRead = "found",
                               !.prod = current_prod_models[1],
                               !.regCalls = @ + 1]]
       \/ run' = [run EXCEPT ![p] =
                    Caught([@ EXCEPT !.regCalls = @ + 1], "lookup")]
    /\ UNCHANGED <<registry, started, svc>>

\* register.py 279-284: no Production version, promote the new one
PromoteBootstrap(p) ==
    /\ run[p].pc = "pm_boot"
    /\ \/ /\ registry' = BootstrapTransition(registry, run[p].newVer)
          /\ run' = [run EXCEPT ![p] =
                       [@ EXCEPT !.regCalls = @ + 1, !.promoted = TRUE,
                           !.pc = IF NotifiesDeployment("bootstrap")
                                  THEN "pm_cd" ELSE "pm_return"]]
       \/ /\ run' = [run EXCEPT ![p] =
                       Caught([@ EXCEPT !.regCalls = @ + 1], "transition")]
          /\ UNCHANGED registry
    /\ UNCHANGED <<started, svc>>

\* register.py 315-341: the accuracy of the Production version (tag, then
\* the metric of its run, then 0.0) and the comparison
CompareAccuracy(p) ==
    /\ run[p].pc = "pm_acc"
    /\ \E lookup \in {registry[run[p].prod].metric, NoMetric} :
          LET tag == registry[run[p].prod].tag
              current_accuracy == CurrentAccuracy(tag, lookup)
          IN /\ ~MetricLookedUp(tag) => lookup = registry[run[p].prod].metric
             /\ run' = [run EXCEPT ![p] =
                   [@ EXCEPT !.curAcc = current_accuracy,
                       !.lookup = IF ~MetricLookedUp(tag) THEN "none"
                                  ELSE IF lookup = NoMetric THEN "failed"
                                  ELSE "ok",
                       !.regCalls = IF MetricLookedUp(tag) THEN @ + 1 ELSE @,
                       !.pc = IF PromoteDecision(run[p].ev.accuracy,
                                                 current_accuracy)
                              THEN "pm_win" ELSE "pm_lose",
                       !.branch = IF PromoteDecision(run[p].ev.accuracy,
                                                     current_accuracy)
                                  THEN "win" ELSE "lose"]]
    /\ UNCHANGED <<registry, started, svc>>

\* register.py 347-352: the new version is better
PromoteWin(p) ==
    /\ run[p].pc = "pm_win"
    /\ \/ /\ registry' = WinTransition(registry, run[p].newVer)
          /\ run' = [run EXCEPT ![p] =
                       [@ EXCEPT !.regCalls = @ + 1, !.promoted = TRUE,
                           !.pc = IF NotifiesDeployment("win")
                                  THEN "pm_cd" ELSE "pm_return"]]
       \/ /\ run' = [run EXCEPT ![p] =
                       Caught([@ EXCEPT !.regCalls = @ + 1], "transition")]
          /\ UNCHANGED registry
    /\ UNCHANGED <<started, svc>>

\* register.py 380-385: the new version is not better
DemoteLose(p) ==
    /\ run[p].pc = "pm_lose"
    /\ \/ /\ registry' = LoseTransition(registry, run[p].newVer)
          /\ run' = [run EXCEPT ![p] =
                       [@ EXCEPT !.regCalls = @ + 1,
                           !.pc = IF NotifiesDeployment("lose")
                                  THEN "pm_cd" ELSE "pm_return"]]
       \/ /\ run' = [run EXCEPT ![p] =
                       Caught([@ EXCEPT !.regCalls = @ + 1], "transition")]
          /\ UNCHANGED registry
    /\ UNCHANGED <<started, svc>>

\* register.py 25-137: trigger_cd_pipeline(new_version_num, new_accuracy,
\* settings), called inside the try block of promote_model
TriggerCdPipeline(p) ==
    /\ run[p].pc = "pm_cd"
    /\ \E cfg \in [enable : BOOLEAN, token : BOOLEAN, owner : BOOLEAN,
                   name : BOOLEAN],
          post \in PostOutcomes \cup {NoPost} :
          LET posted == CdGate(cfg)
              result == IF posted THEN CdResult(post) ELSE "false"
              cd == [called |-> TRUE, version |-> run[p].newVer,
                     cfg |-> cfg, posted |-> posted,
                     post |-> IF posted THEN post ELSE NoPost,
                     result |-> result]
          IN /\ posted <=> post # NoPost
             /\ run' = [run EXCEPT ![p] =
                   IF result = "raise"
                   THEN Caught([@ EXCEPT !.cd = cd], "trigger")
                   ELSE [@ EXCEPT !.cd = cd, !.pc = "pm_return"]]
             /\ registry' = AfterNotification(registry, run[p].newVer,
                                              result)
    /\ UNCHANGED <<started, svc>>

\* register.py 387-395: the except block moves the new version to Staging
\* and does not raise again; an exception of this transition leaves
\* promote_model and register_model
FallbackToStaging(p) ==
    /\ run[p].pc = "pm_fallback"
    /\ \/ /\ registry' = FallbackTransition(registry, run[p].newVer)
          /\ run' = [run EXCEPT ![p] =
                       [@ EXCEPT !.regCalls = @ + 1, !.fallback = "done",
                                 !.pc = "pm_return"]]
       \/ /\ run' = [run EXCEPT ![p] =
                       Raised([@ EXCEPT !.regCalls = @ + 1,
                                        !.fallback = "raised"])]
          /\ UNCHANGED registry
    /\ UNCHANGED <<started, svc>>

\* register.py 220-222, 235: promote_model returns, register_model returns
\* the version
ReturnVersion(p) ==
    /\ run[p].pc = "pm_return"
    /\ run' = [run EXCEPT ![p] = Returned(@, "version")]
    /\ UNCHANGED <<registry, started, svc>>

----------------------------------------------------------------------------
(* Specification: runs one after another on one worker *)

\* the stages of retraining_flow up to the call of register_model
FlowStep(p) ==
    \/ StartFlow(p)
    \/ SetTrackingUri(p)
    \/ LoadRawData(p)
    \/ ValidateData(p)
    \/ LoadReferenceData(p)
    \/ SimulateCurrentData(p)
    \/ SkipDriftCheck(p)
    \/ CheckDriftAndPerformance(p)
    \/ Branch(p)
    \/ PreprocessData(p)
    \/ SplitData(p)
    \/ TrainModel(p)
    \/ EvaluateModel(p)

\* the steps of register_model, promote_model and trigger_cd_pipeline
RegisterStep(p) ==
    \/ CheckEligibility(p)
    \/ RegisterNewVersion(p)
    \/ UpdateDescription(p)
    \/ TransitionToStaging(p)
    \/ GetProduction(p)
    \/ PromoteBootstrap(p)
    \/ CompareAccuracy(p)
    \/ PromoteWin(p)
    \/ DemoteLose(p)
    \/ TriggerCdPipeline(p)
    \/ FallbackToStaging(p)
    \/ ReturnVersion(p)

Step(p) ==
    \/ FlowStep(p)
    \/ CallRegisterModel(p)
    \/ RegisterStep(p)

Next == \E p \in SeqProcs : Step(p)

Spec == Init /\ [][Next]_vars

\* a step of a run that has been started: every action but the two entry
\* points, which belong to the caller
RunStep(p) ==
    /\ FlowStep(p) \/ RegisterStep(p)
    /\ started' = started

\* The same runs, with the code of a started run always executed further:
\* every call of the flow returns or raises (flows.py 173-233)
SpecLive == Init /\ [][Next]_vars /\ \A p \in SeqProcs : WF_vars(RunStep(p))

----------------------------------------------------------------------------
(* Specification: runs of several workers interleaved, from the point where
   each calls register_model.  The workflow engine may execute independent
   runs at the same time; they share the registry, which only register_model
   touches.  Each worker makes one call of register_model, for a candidate
   flagged eligible whose accuracy metric was logged (evaluate.py 72-73).
   The registry starts as earlier runs left it: empty, or holding one
   Production version. *)

InitConc ==
    /\ \E accuracy \in Acc \ {0} :
          registry \in {<<>>,
                        <<[stage |-> "Production", tag |-> accuracy,
                           metric |-> accuracy]>>}
    /\ run = [p \in Procs |-> IdleRun]
    /\ started = 0
    /\ svc = SvcDown

ConcurrentCall(p) ==
    /\ run[p].pc = "idle"
    /\ CallRegisterModel(p)
    /\ run'[p].ev.is_eligible = "true"
    /\ run'[p].metric = run'[p].ev.accuracy

NextConc == \E p \in Procs : ConcurrentCall(p) \/ RegisterStep(p)

SpecConc == InitConc /\ [][NextConc]_vars

----------------------------------------------------------------------------
(* Specification: runs one after another over a registry that is empty or
   holds one Production version registered by another tool, whose "accuracy"
   tag may be a number, missing or not a number, and whose run may or may
   not have an accuracy metric *)

SeededTags == {NoTag, BadTag, 0, MIN_TRAINING_ACCURACY}

InitSeeded ==
    /\ \E tag \in SeededTags, metric \in {NoMetric, MIN_TRAINING_ACCURACY} :
          registry \in {<<>>,
                        <<[stage |-> "Production", tag |-> tag,
                           metric |-> metric]>>}
    /\ run = [p \in Procs |-> IdleRun]
    /\ started = 0
    /\ svc = SvcDown

SpecSeeded == InitSeeded /\ [][Next]_vars

----------------------------------------------------------------------------
(* The inference service, inference-service/app/main.py *)

\* main.py 40-64 with model_loader.py 44-88, 253-268: the startup builds the
\* model manager, which loads the model; a failure of the load is logged and
\* the service starts with model_manager None
Lifespan(p) ==
    /\ svc.phase = "init"
    /\ \E load \in {"ok", "raised"} :
          svc' = [svc EXCEPT !.phase = "serving",
                             !.startup = load,
                             !.manager = (load = "ok"),
                             !.loaded = (load = "ok")]
    /\ UNCHANGED <<registry, run, started>>

\* main.py 128-148: /health
HealthCheck(p) ==
    /\ svc.phase = "serving"
    /\ LET is_healthy == IsHealthy(svc.manager, svc.loaded)
       IN svc' = [svc EXCEPT !.last =
                    [endpoint |-> "/health", status |-> 200,
                     detail |-> IF is_healthy THEN "healthy" ELSE "unhealthy",
                     model_loaded |-> is_healthy, called |-> FALSE,
                     exc |-> "none"]]
    /\ UNCHANGED <<registry, run, started>>

\* main.py 161-191, 202-250, 264-328: /models/info, /predict and
\* /predict_batch; size is the size of the batch against MAX_BATCH_SIZE, and
\* exc the exception of the call of the model manager ("none": it returns)
ModelRequest(p) ==
    /\ svc.phase = "serving"
    /\ \E endpoint \in ModelEndpoints, size \in {"ok", "too_many"},
          exc \in ExcTexts \cup {"none"} :
          LET ready == ModelReady(svc.manager, svc.loaded)
              rejected == endpoint = "/predict_batch" /\ size = "too_many"
              called == ready /\ ~rejected
              response ==
                  IF ~ready THEN NotReadyResponse(endpoint)
                  ELSE IF rejected
                  THEN [status |-> 400, detail |-> "Batch size exceeds maximum"]
                  ELSE IF exc # "none"
                  THEN ErrorResponse(endpoint, exc)
                  ELSE [status |-> 200, detail |-> "none"]
          IN /\ (endpoint # "/predict_batch") => size = "ok"
             /\ ~called => exc = "none"
             /\ svc' = [svc EXCEPT
                   !.last = [endpoint |-> endpoint,
                             status |-> response.status,
                             detail |-> response.detail,
                             model_loaded |-> FALSE, called |-> called,
                             exc |-> exc],
                   !.failures[endpoint] =
                       IF exc # "none"
                       THEN @ \cup {[exc |-> exc, response |-> response]}
                       ELSE @]
    /\ UNCHANGED <<registry, run, started>>

InitSvc ==
    /\ registry = <<>>
    /\ run = [p \in Procs |-> IdleRun]
    /\ started = 0
    /\ svc = SvcDown

NextSvc ==
    \E p \in SeqProcs : Lifespan(p) \/ HealthCheck(p) \/ ModelRequest(p)

SpecSvc == InitSvc /\ [][NextSvc]_vars

----------------------------------------------------------------------------
(* Properties *)

StageOf(v) == registry[v].stage

\* register_model has been entered by the run of worker p
InRegisterModel(p) ==
    run[p].pc \in {"register", "reg_create", "reg_describe", "reg_stage",
                   "pm_get", "pm_boot", "pm_acc", "pm_win", "pm_lose",
                   "pm_cd", "pm_fallback", "pm_return"}
    \/ run[p].ret # "unset"

\* C1 Mutual exclusion: with runs executed one after another, at most one
\* version of the model name is in stage Production in every registry state,
\* intermediate or final.
C1_MutualExclusion ==
    Cardinality(VersionsInStage(registry, "Production")) <= 1

\* a second promotion has replaced the first Production version
C1_Witness ==
    \E v, w \in DOMAIN registry :
        /\ v < w
        /\ StageOf(v) = "Archived"
        /\ StageOf(w) = "Production"

\* C2 Strict improvement: when a Production version was found and no call of
\* the promotion failed, the new version is in Production exactly if
\* new_accuracy > current_accuracy, and in Staging otherwise (a tie included).
C2_StrictImprovement ==
    \A p \in Procs :
        (/\ Terminal(p)
         /\ run[p].prodRead = "found"
         /\ run[p].pmError = "none")
        => /\ StageOf(run[p].newVer) = "Production"
                <=> run[p].ev.accuracy > run[p].curAcc
           /\ run[p].ev.accuracy <= run[p].curAcc
                => StageOf(run[p].newVer) = "Staging"
           /\ registry[run[p].prod].tag # 0
                => run[p].curAcc = registry[run[p].prod].tag

\* a candidate that ties with the Production version went to Staging
C2_Witness ==
    \E p \in Procs :
        /\ Terminal(p)
        /\ run[p].prodRead = "found"
        /\ run[p].pmError = "none"
        /\ run[p].curAcc = MIN_TRAINING_ACCURACY
        /\ run[p].ev.accuracy = run[p].curAcc
        /\ StageOf(run[p].newVer) = "Staging"
        /\ StageOf(run[p].prod) = "Production"

\* C3 Bootstrap: the bootstrap branch is taken exactly when the registry has
\* no Production version, and then (the transition succeeding) the new
\* version is in Production whatever its accuracy, no accuracy having been
\* read or compared.
C3_Bootstrap ==
    \A p \in Procs :
        /\ run[p].pc \in {"pm_boot", "pm_acc"}
             => (run[p].pc = "pm_boot"
                    <=> VersionsInStage(registry, "Production") = {})
        /\ (/\ Terminal(p)
            /\ run[p].prodRead = "empty"
            /\ run[p].pmError = "none")
           => /\ StageOf(run[p].newVer) = "Production"
              /\ run[p].promoted
              /\ run[p].curAcc = NoAcc
              /\ run[p].branch = "bootstrap"

\* a candidate below MIN_TRAINING_ACCURACY, flagged eligible by its caller,
\* was promoted by the bootstrap branch
C3_Witness ==
    \E p \in Procs :
        /\ Terminal(p)
        /\ run[p].prodRead = "empty"
        /\ run[p].pmError = "none"
        /\ run[p].ev.accuracy < MIN_TRAINING_ACCURACY
        /\ StageOf(run[p].newVer) = "Production"

\* C4 Eligibility gate: with is_eligible false or missing, register_model
\* makes no registry call, registers no version, sends no deployment
\* notification and returns None, for either promote_to_production.
C4_EligibilityGate ==
    \A p \in Procs :
        (InRegisterModel(p) /\ run[p].ev.is_eligible \in {"false", "missing"})
        => /\ run[p].regCalls = 0
           /\ run[p].newVer = 0
           /\ ~run[p].cd.called
           /\ run[p].pc \in {"register", "done"}
           /\ Terminal(p) => run[p].ret = "None"

\* register_model returned None for results without the is_eligible key while
\* promotion was asked for
C4_Witness ==
    \E p \in Procs :
        /\ Terminal(p)
        /\ run[p].ev.is_eligible = "missing"
        /\ run[p].promote
        /\ run[p].ret = "None"
        /\ registry = <<>>

\* C5 Promotion failure fallback: once an exception of promote_model has been
\* caught and the fallback transition has succeeded, the new version is in
\* stage Staging.
C5_FallbackStaging ==
    \A p \in Procs :
        (run[p].pmError # "none" /\ run[p].fallback = "done")
        => StageOf(run[p].newVer) = "Staging"

\* the transition to Production raised and the fallback moved the version to
\* Staging
C5_Witness ==
    \E p \in Procs :
        /\ Terminal(p)
        /\ run[p].pmError = "transition"
        /\ run[p].branch = "win"
        /\ run[p].fallback = "done"
        /\ StageOf(run[p].newVer) = "Staging"

\* C6 Promotion failure is surfaced: a run in which a call of promote_model
\* failed ends with register_model raising (the run FAILED), never with
\* register_model returning a version.
C6_ErrorSurfaced ==
    \A p \in Procs :
        (Terminal(p) /\ run[p].pmError # "none")
        => /\ run[p].ret = "raised"
           /\ run[p].outcome \in {"FAILED", "RAISED"}

AnalysisNotProduced(p) ==
    \/ run[p].analysis.engine = "raised"
    \/ run[p].analysis.drift \in {"nokey", "noresult"}
    \/ run[p].analysis.accuracy = "missing"

\* C7 Fail-safe decision: in a run without force_retrain whose drift analysis
\* could not be produced, the decision is to retrain: the run does not fail
\* in the decision stage and does not end at SKIP.
C7_FailSafeDecision ==
    \A p \in Procs :
        (/\ run[p].kind = "flow"
         /\ ~run[p].force
         /\ AnalysisNotProduced(p))
        => /\ ~(run[p].outcome = "FAILED" /\ run[p].failedAt = "decide")
           /\ run[p].outcome # "SKIP"
           /\ run[p].pc = "branch" => run[p].retrain

\* C8 Handoff only on promotion: trigger_cd_pipeline is called only for the
\* new version of the run after its transition to Production succeeded
\* (bootstrap or winning comparison); a run whose version is in Staging, or
\* whose candidate is ineligible, has not called it.
C8_HandoffOnlyOnPromotion ==
    \A p \in Procs :
        /\ run[p].cd.called
             => /\ run[p].promoted
                /\ run[p].promote
                /\ run[p].branch \in {"bootstrap", "win"}
                /\ run[p].cd.version = run[p].newVer
                /\ StageOf(run[p].newVer) = "Production"
        /\ (run[p].newVer # 0 /\ StageOf(run[p].newVer) = "Staging")
             => ~run[p].cd.called
        /\ (InRegisterModel(p) /\ ~IsEligible(run[p].ev))
             => ~run[p].cd.called

\* the notification was sent for a version that won the comparison
C8_Witness ==
    \E p \in Procs :
        /\ run[p].cd.called
        /\ run[p].branch = "win"
        /\ StageOf(run[p].cd.version) = "Production"

\* C9 Handoff gating: the POST is issued only if ENABLE_CD_TRIGGER is true
\* and the token, the owner and the repository name are all non-empty;
\* otherwise trigger_cd_pipeline returns False without a network call.
C9_HandoffGating ==
    \A p \in Procs :
        run[p].cd.called
        => /\ run[p].cd.posted
                <=> (/\ run[p].cd.cfg.enable
                     /\ run[p].cd.cfg.token
                     /\ run[p].cd.cfg.owner
                     /\ run[p].cd.cfg.name)
           /\ ~run[p].cd.posted
                => (run[p].cd.result = "false" /\ run[p].cd.post = NoPost)

\* the trigger was enabled with a token and a repository name but no owner:
\* no POST, result False
C9_Witness ==
    \E p \in Procs :
        /\ run[p].cd.called
        /\ run[p].cd.cfg.enable
        /\ run[p].cd.cfg.token
        /\ run[p].cd.cfg.name
        /\ ~run[p].cd.cfg.owner
        /\ ~run[p].cd.posted
        /\ run[p].cd.result = "false"

\* C10 Notification failure never aborts the run: trigger_cd_pipeline returns
\* True exactly for a response of status 204 and False for every other
\* status and every exception of the POST; it raises nothing, and the run
\* finishes with register_model returning the version (DONE).
C10_NotificationNeverAborts ==
    \A p \in Procs :
        run[p].cd.called
        => /\ run[p].cd.result \in {"true", "false"}
           /\ run[p].cd.result = "true"
                <=> (/\ run[p].cd.posted
                     /\ run[p].cd.post.raised = "none"
                     /\ run[p].cd.post.status = 204)
           /\ run[p].pmError = "none"
           /\ Terminal(p)
                => /\ run[p].ret = "version"
                   /\ run[p].kind = "flow" => run[p].outcome = "DONE"

\* a flow run whose POST timed out finished DONE
C10_Witness ==
    \E p \in Procs :
        /\ Terminal(p)
        /\ run[p].kind = "flow"
        /\ run[p].cd.posted
        /\ run[p].cd.post.raised = "timeout"
        /\ run[p].cd.result = "false"
        /\ run[p].outcome = "DONE"
        /\ StageOf(run[p].newVer) = "Production"

\* C11 No rollback on failed notification: once trigger_cd_pipeline has
\* returned False for the promoted version, that version is still in
\* Production, the version it replaced is still Archived, and the step of the
\* notification itself has left the registry as it was.
C11_NoRollback ==
    [][\A p \in Procs :
          (/\ run[p].pc = "pm_cd"
           /\ run'[p].cd.called
           /\ run'[p].cd.result = "false")
          => /\ registry' = registry
             /\ registry'[run[p].newVer].stage = "Production"
             /\ run[p].branch = "win"
                  => registry'[run[p].prod].stage = "Archived"]_vars

\* the POST for a version that won the comparison was answered 500: the
\* version is in Production and its predecessor Archived
C11_Witness ==
    \E p \in Procs :
        /\ Terminal(p)
        /\ run[p].cd.called
        /\ run[p].cd.posted
        /\ run[p].cd.post.status = 500
        /\ run[p].cd.result = "false"
        /\ run[p].branch = "win"
        /\ StageOf(run[p].newVer) = "Production"
        /\ StageOf(run[p].prod) = "Archived"

\* C12 Losing comparison: with a Production version found and
\* new_accuracy <= current_accuracy the losing branch is taken; its
\* transition moves the new version to Staging and changes no other version
\* (the Production version keeps its stage and tags), and the run then
\* returns without calling trigger_cd_pipeline.
C12_LosingComparison ==
    [][\A p \in Procs :
          /\ run[p].pc = "pm_acc"
               => (run'[p].pc = "pm_lose"
                     <=> run[p].ev.accuracy <= run'[p].curAcc)
          /\ (run[p].pc = "pm_lose" /\ run'[p].pc # "pm_fallback")
               => /\ run'[p].pc = "pm_return"
                  /\ DOMAIN registry' = DOMAIN registry
                  /\ registry'[run[p].newVer].stage = "Staging"
                  /\ \A w \in DOMAIN registry \ {run[p].newVer} :
                        registry'[w] = registry[w]
                  /\ registry'[run[p].prod].stage = "Production"
          /\ (run[p].pc = "pm_return" /\ run[p].branch = "lose")
               => /\ registry' = registry
                  /\ ~run'[p].cd.called
                  /\ run'[p].ret = "version"]_vars

\* a candidate less accurate than the Production version ended in Staging
\* with the Production version in place and no notification
C12_Witness ==
    \E p \in Procs :
        /\ Terminal(p)
        /\ run[p].branch = "lose"
        /\ run[p].pmError = "none"
        /\ run[p].ev.accuracy < run[p].curAcc
        /\ StageOf(run[p].newVer) = "Staging"
        /\ StageOf(run[p].prod) = "Production"
        /\ ~run[p].cd.called

\* C13 Winning comparison: with a Production version found and
\* new_accuracy > current_accuracy the winning branch is taken; one
\* transition makes the new version Production and the old one Archived and
\* changes nothing else, every registry state of the comparison has exactly
\* one Production version, and trigger_cd_pipeline is called next.
C13_WinningComparison ==
    [][\A p \in Procs :
          /\ run[p].pc = "pm_acc"
               => (run'[p].pc = "pm_win"
                     <=> run[p].ev.accuracy > run'[p].curAcc)
          /\ (run[p].pc = "pm_win" /\ run'[p].pc # "pm_fallback")
               => /\ run'[p].pc = "pm_cd"
                  /\ DOMAIN registry' = DOMAIN registry
                  /\ registry[run[p].prod].stage = "Production"
                  /\ registry'[run[p].newVer].stage = "Production"
                  /\ registry'[run[p].prod].stage = "Archived"
                  /\ \A w \in DOMAIN registry \ {run[p].newVer, run[p].prod} :
                        registry'[w] = registry[w]
          /\ (run[p].pc = "pm_cd" /\ run[p].branch = "win")
               => /\ run'[p].cd.called
                  /\ run'[p].cd.version = run[p].newVer
          /\ (run[p].prodRead = "found" /\ run[p].pmError = "none"
                /\ run[p].pc \in {"pm_acc", "pm_win", "pm_lose", "pm_cd",
                                  "pm_return"})
               => Cardinality(VersionsInStage(registry', "Production")) = 1
         ]_vars

\* a more accurate candidate replaced the Production version and the
\* deployment was notified with status 204
C13_Witness ==
    \E p \in Procs :
        /\ Terminal(p)
        /\ run[p].branch = "win"
        /\ run[p].ev.accuracy > run[p].curAcc
        /\ run[p].curAcc >= MIN_TRAINING_ACCURACY
        /\ StageOf(run[p].newVer) = "Production"
        /\ StageOf(run[p].prod) = "Archived"
        /\ run[p].cd.called
        /\ run[p].cd.result = "true"

\* C14 Concurrency hazard: with the calls of two runs interleaved, a registry
\* state with two Production versions is reachable (C14_Witness), and the
\* step that adds a second Production version is always the bootstrap
\* transition of a run that read "no Production version" earlier, another
\* run having promoted its version between that read and this transition.
C14_ConcurrencyHazard ==
    [][(/\ Cardinality(VersionsInStage(registry', "Production")) >= 2
        /\ Cardinality(VersionsInStage(registry, "Production")) <= 1)
       => \E p \in Procs :
             /\ run[p].pc = "pm_boot"
             /\ run[p].prodRead = "empty"
             /\ run'[p].promoted
             /\ registry'[run[p].newVer].stage = "Production"
             /\ \E q \in Procs \ {p} :
                   /\ run[q].promoted
                   /\ registry[run[q].newVer].stage = "Production"]_vars

\* both runs read an empty Production list and both promoted their version
C14_Witness ==
    \E p, q \in Procs :
        /\ p # q
        /\ run[p].prodRead = "empty"
        /\ run[q].prodRead = "empty"
        /\ run[p].newVer # run[q].newVer
        /\ StageOf(run[p].newVer) = "Production"
        /\ StageOf(run[q].newVer) = "Production"

\* C15 Validation gate: once the validation engine has reported a failure in
\* a run, the run is still validating or has ended FAILED in VALIDATE; it
\* never loads the reference data, simulates, analyses drift or retrains.
C15_ValidationGate ==
    \A p \in Procs :
        run[p].valFailed
        => \/ run[p].pc = "validate"
           \/ /\ run[p].pc = "done"
              /\ run[p].outcome = "FAILED"
              /\ run[p].failedAt = "validate"

\* C16 Missing source file is not retried: an attempt of load_raw_data that
\* finds no file is the first and only attempt of the run and ends the run
\* FAILED at once, while an attempt that fails otherwise is retried.
C16_MissingFileNotRetried ==
    \A p \in Procs :
        /\ run[p].loadError = "not_found"
             => /\ run[p].pc = "done"
                /\ run[p].outcome = "FAILED"
                /\ run[p].failedAt = "ingest"
                /\ run[p].attempts = 0
        /\ (run[p].loadError = "error" /\ run[p].pc = "done")
             => run[p].attempts = LOAD_RETRIES

\* C17 Bounded ingest retry: load_raw_data is attempted at most 3 times in a
\* run; a failing first or second attempt is followed by another attempt, a
\* failing third attempt ends the run FAILED in INGEST with no later stage
\* run, and a succeeding attempt takes the run to VALIDATE.
C17_BoundedIngestRetry ==
    [][\A p \in Procs :
          /\ run[p].pc = "ingest"
               => /\ run[p].attempts <= 2
                  /\ run'[p].pc \in {"ingest", "validate", "done"}
                  /\ run'[p].pc = "ingest"
                       => /\ run'[p].attempts = run[p].attempts + 1
                          /\ run'[p].attempts <= 2
                          /\ run'[p].loadError # "none"
                  /\ run'[p].pc = "done"
                       => /\ run[p].attempts = 2
                          /\ run'[p].loadError # "none"
                          /\ run'[p].outcome = "FAILED"
                          /\ run'[p].failedAt = "ingest"
                  /\ run'[p].pc = "validate"
                       => run'[p].loadError = "none"
          /\ run[p].failedAt = "ingest"
               => /\ run[p].pc = "done"
                  /\ run[p].ev = NoEval
                  /\ run[p].regCalls = 0
                  /\ ~run[p].valFailed
                  /\ run'[p].pc \in {"done", "set_uri", "register"}
                  /\ registry' = registry]_vars

\* the third attempt failed as well and the run ended FAILED in INGEST
C17_Witness ==
    \E p \in Procs :
        /\ Terminal(p)
        /\ run[p].outcome = "FAILED"
        /\ run[p].failedAt = "ingest"
        /\ run[p].attempts = 2
        /\ run[p].loadError = "error"

\* C18 Force override: a run started with force_retrain never invokes
\* check_drift_and_performance (it carries no analysis result, never fails in
\* DECIDE and never ends SKIP); its DECIDE step sets retrain_needed and its
\* next step enters the retraining pipeline.
C18_ForceOverride ==
    [][\A p \in Procs :
          run[p].force
            => /\ run[p].analysis = NoAnalysis
               /\ run[p].outcome # "SKIP"
               /\ run[p].failedAt # "decide"
               /\ run[p].pc = "decide"
                    => /\ run'[p].pc = "branch"
                       /\ run'[p].retrain
                       /\ run'[p].analysis = NoAnalysis
               /\ run[p].pc = "branch"
                    => run'[p].pc = "preprocess"]_vars

\* a forced run has entered the retraining pipeline
C18_Witness ==
    \E p \in Procs :
        /\ run[p].force
        /\ run[p].pc = "preprocess"
        /\ run[p].retrain
        /\ run[p].analysis.engine = "none"

\* C19 Decision rule: in a run without force_retrain whose analysis returned
\* a result, retrain_needed is true exactly when data_drift_detected or
\* model_performance_degraded is true; the run ends SKIP only when both are
\* false.
C19_DecisionRule ==
    \A p \in Procs :
        (~run[p].force /\ run[p].analysis.engine = "ok")
          => LET drift == run[p].analysis.data_drift_detected
                 degraded == run[p].analysis.model_performance_degraded
             IN /\ (drift /\ degraded) => run[p].retrain
                /\ (drift /\ ~degraded) => run[p].retrain
                /\ (~drift /\ degraded) => run[p].retrain
                /\ (~drift /\ ~degraded) => ~run[p].retrain
                /\ run[p].outcome = "SKIP" => (~drift /\ ~degraded)

\* degradation alone, without drift, triggered the retraining
C19_Witness ==
    \E p \in Procs :
        /\ ~run[p].force
        /\ run[p].pc = "branch"
        /\ run[p].analysis.engine = "ok"
        /\ ~run[p].analysis.data_drift_detected
        /\ run[p].analysis.model_performance_degraded
        /\ run[p].retrain

C21_SkipPath ==
    [][\A p \in Procs :
          /\ (run[p].kind = "flow"
                /\ run[p].pc \in {"set_uri", "ingest", "validate", "load_ref",
                                  "simulate", "decide", "branch"})
               => registry' = registry
          /\ (run[p].pc = "branch" /\ ~run[p].retrain)
               => /\ run'[p].pc = "done"
                  /\ run'[p].outcome = "SKIP"
                  /\ run'[p].failedAt = "none"
          /\ run[p].outcome = "SKIP"
               => /\ run[p].pc = "done"
                  /\ ~run[p].retrain
                  /\ run[p].ev = NoEval
                  /\ run[p].metric = NoMetric
                  /\ run[p].regCalls = 0
                  /\ run[p].newVer = 0
                  /\ ~run[p].cd.called
                  /\ run[p].ret = "unset"
                  /\ registry' = registry]_vars

\* a run ended SKIP over a registry that an earlier run had filled
C21_Witness ==
    \E p \in Procs :
        /\ Terminal(p)
        /\ run[p].outcome = "SKIP"
        /\ run[p].analysis.engine = "ok"
        /\ registry # <<>>
        /\ StageOf(1) = "Production"

\* the position of a stage in retraining_flow (flows.py 173-231); the
\* reference load, the simulation and the drift check make up DECIDE, and
\* register_model with promote_model makes up REGISTER/PROMOTE
StageRank(stage) ==
    CASE stage = "set_uri" -> 0
      [] stage = "ingest" -> 1
      [] stage = "validate" -> 2
      [] stage \in {"load_ref", "simulate", "decide", "branch"} -> 3
      [] stage = "preprocess" -> 4
      [] stage = "split" -> 5
      [] stage = "train" -> 6
      [] stage = "evaluate" -> 7
      [] stage \in {"register", "reg_create", "reg_describe", "reg_stage",
                    "pm_get", "pm_boot", "pm_acc", "pm_win", "pm_lose",
                    "pm_fallback"} -> 8
      [] stage = "pm_cd" -> 9
      [] OTHER -> 10

\* C22 Stage ordering: a step of a flow run stays in its stage, enters the
\* next stage of the order INGEST, VALIDATE, DECIDE, PREPROCESS, SPLIT, TRAIN,
\* EVALUATE, REGISTER/PROMOTE, NOTIFY without a failure recorded, or ends the
\* run; a run that failed in a stage is over and has executed no later stage.
C22_StageOrdering ==
    [][\A p \in Procs :
          run[p].kind = "flow"
            => /\ run[p].pc \notin {"done", "pm_return"}
                    => /\ \/ run'[p].pc \in {"done", "pm_return"}
                          \/ StageRank(run'[p].pc) = StageRank(run[p].pc)
                          \/ StageRank(run'[p].pc) = StageRank(run[p].pc) + 1
                       /\ run'[p].pc # "done"
                            => /\ run'[p].outcome = "none"
                               /\ run'[p].failedAt = "none"
                       /\ (run'[p].pc = "done" /\ run'[p].outcome = "FAILED")
                            => StageRank(run'[p].failedAt)
                                  = StageRank(run[p].pc)
               /\ run[p].pc = "pm_return" => run'[p].pc = "done"
               /\ run[p].failedAt # "none"
                    => /\ run[p].pc = "done"
                       /\ run[p].outcome = "FAILED"
                       /\ run'[p].pc \in {"done", "set_uri", "register"}
                       /\ StageRank(run[p].failedAt) <= 7
                            => /\ run[p].regCalls = 0
                               /\ run[p].newVer = 0
                               /\ ~run[p].cd.called
                       /\ StageRank(run[p].failedAt) <= 6
                            => run[p].ev = NoEval
                       /\ StageRank(run[p].failedAt) <= 3
                            => ~run[p].retrain \/ run[p].force
               /\ run[p].cd.called => run[p].promoted
               /\ run[p].newVer # 0 => run[p].ev # NoEval]_vars

\* the training of a flow run raised: the run is over without an evaluation
\* or a registry call
C22_Witness ==
    \E p \in Procs :
        /\ Terminal(p)
        /\ run[p].kind = "flow"
        /\ run[p].outcome = "FAILED"
        /\ run[p].failedAt = "train"
        /\ run[p].ev = NoEval
        /\ run[p].regCalls = 0

\* C23 No partial registry writes: a run that ended with an exception
\* (FAILED, or register_model raising to its caller) has left no version of
\* its own in the registry.
C23_NoPartialWrites ==
    \A p \in Procs :
        (Terminal(p) /\ run[p].outcome \in {"FAILED", "RAISED"})
        => run[p].newVer = 0

\* flows.py 196-233 with register.py 176-181, 219-235: the descriptions of
\* how a flow run ended that apply to the run of worker p
RunOutcomes(p) ==
    {o \in {"skipped", "retrained-and-staged", "retrained-and-promoted",
            "retrained-and-rejected", "failed"} :
        \/ o = "skipped" /\ run[p].outcome = "SKIP"
        \/ o = "failed" /\ run[p].outcome = "FAILED"
        \/ /\ o = "retrained-and-staged"
           /\ run[p].outcome = "DONE"
           /\ run[p].newVer # 0
           /\ StageOf(run[p].newVer) = "Staging"
        \/ /\ o = "retrained-and-promoted"
           /\ run[p].outcome = "DONE"
           /\ run[p].newVer # 0
           /\ StageOf(run[p].newVer) = "Production"
        \/ /\ o = "retrained-and-rejected"
           /\ run[p].outcome = "DONE"
           /\ run[p].newVer = 0
           /\ run[p].ret = "None"}

\* C24 Run outcomes, as claimed: every terminated flow run is exactly one of
\* skipped, retrained-and-staged, retrained-and-promoted or failed, and a run
\* that retrained without failing has its new version in Staging or in
\* Production.
C24_RunOutcomes ==
    \A p \in Procs :
        (Terminal(p) /\ run[p].kind = "flow")
        => /\ Cardinality(RunOutcomes(p) \ {"retrained-and-rejected"}) = 1
           /\ run[p].outcome = "DONE"
                => /\ run[p].newVer # 0
                   /\ StageOf(run[p].newVer) \in {"Staging", "Production"}

\* C24 Run outcomes, amended: with runs executed one after another, every
\* terminated flow run is exactly one of skipped, retrained-and-rejected (the
\* candidate was ineligible and no version was registered),
\* retrained-and-staged, retrained-and-promoted or failed; a run that
\* registered a version and did not fail has it in Staging or in Production.
C24_RunOutcomesAmended ==
    \A p \in Procs :
        (Terminal(p) /\ run[p].kind = "flow")
        => /\ Cardinality(RunOutcomes(p)) = 1
           /\ (run[p].outcome = "DONE" /\ run[p].newVer # 0)
                => StageOf(run[p].newVer) \in {"Staging", "Production"}
           /\ (run[p].outcome = "DONE" /\ run[p].newVer = 0)
                => /\ run[p].ev.accuracy < MIN_TRAINING_ACCURACY
                   /\ run[p].regCalls = 0

\* a flow run retrained, found its candidate ineligible and ended without an
\* error and without a version
C24_Witness ==
    \E p \in Procs :
        /\ Terminal(p)
        /\ run[p].kind = "flow"
        /\ run[p].outcome = "DONE"
        /\ run[p].ev.accuracy = MIN_TRAINING_ACCURACY - 1
        /\ RunOutcomes(p) = {"retrained-and-rejected"}

\* C25 Ineligible candidate halts cleanly: a flow run whose evaluated
\* accuracy is below MIN_TRAINING_ACCURACY makes no registry call and no
\* deployment notification, none of its steps changes the registry, and it
\* ends without an error (outcome DONE, register_model having returned None).
C25_IneligibleHaltsCleanly ==
    [][\A p \in Procs :
          (/\ run[p].kind = "flow"
           /\ run[p].ev # NoEval
           /\ run[p].ev.accuracy < MIN_TRAINING_ACCURACY)
          => /\ run[p].pc \in {"register", "done"}
             /\ run[p].regCalls = 0
             /\ run[p].newVer = 0
             /\ ~run[p].cd.called
             /\ run[p].failedAt = "none"
             /\ registry' = registry
             /\ run[p].pc = "register"
                  => /\ run'[p].pc = "done"
                     /\ run'[p].outcome = "DONE"
                     /\ run'[p].ret = "None"
             /\ run[p].pc = "done"
                  => /\ run[p].outcome = "DONE"
                     /\ run[p].ret = "None"]_vars

\* a flow run evaluated its candidate just below the threshold and ended DONE
\* over a registry it did not touch
C25_Witness ==
    \E p \in Procs :
        /\ Terminal(p)
        /\ run[p].kind = "flow"
        /\ run[p].ev.accuracy = MIN_TRAINING_ACCURACY - 1
        /\ run[p].ev.is_eligible = "false"
        /\ run[p].outcome = "DONE"
        /\ run[p].ret = "None"
        /\ Len(registry) = 1

\* C26 Eligibility boundary: evaluate_model flags a candidate eligible exactly
\* when its accuracy is at least MIN_TRAINING_ACCURACY (an accuracy equal to
\* the threshold is eligible), and register_model goes on to register exactly
\* when the flag is true, whatever the accuracy in the metrics.
C26_EligibilityBoundary ==
    [][\A p \in Procs :
          /\ (run[p].kind = "flow" /\ run[p].ev # NoEval)
               => /\ run[p].ev.is_eligible = "true"
                       <=> run[p].ev.accuracy >= MIN_TRAINING_ACCURACY
                  /\ run[p].ev.accuracy = MIN_TRAINING_ACCURACY
                       => run[p].ev.is_eligible = "true"
                  /\ run[p].ev.accuracy = MIN_TRAINING_ACCURACY - 1
                       => run[p].ev.is_eligible = "false"
          /\ run[p].pc = "register"
               => /\ run'[p].pc = "reg_create"
                       <=> run[p].ev.is_eligible = "true"
                  /\ run'[p].pc \in {"reg_create", "done"}
          /\ run[p].regCalls > 0 => run[p].ev.is_eligible = "true"]_vars

\* a flow run whose accuracy equals the threshold went on to register
C26_Witness ==
    \E p \in Procs :
        /\ run[p].kind = "flow"
        /\ run[p].ev.accuracy = MIN_TRAINING_ACCURACY
        /\ run[p].ev.is_eligible = "true"
        /\ run[p].newVer # 0
        /\ registry[run[p].newVer].tag = MIN_TRAINING_ACCURACY

\* C27 Register without promotion: the transition of
\* register_model(promote_to_production=False) puts the new version in
\* Staging, archives every version that was in Staging and changes no other
\* version (a Production version stays in Production); the call never looks
\* up the Production version and sends no deployment notification.
C27_RegisterWithoutPromotion ==
    [][\A p \in Procs :
          /\ (run[p].pc = "reg_describe" /\ ~run[p].promote)
               => run'[p].pc \in {"reg_describe", "reg_stage", "done"}
          /\ (run[p].pc = "reg_stage" /\ run'[p].ret = "version")
               => /\ ~run[p].promote
                  /\ DOMAIN registry' = DOMAIN registry
                  /\ registry'[run[p].newVer].stage = "Staging"
                  /\ \A w \in DOMAIN registry \ {run[p].newVer} :
                        /\ registry[w].stage = "Staging"
                             => registry'[w].stage = "Archived"
                        /\ registry[w].stage # "Staging"
                             => registry'[w] = registry[w]
                        /\ registry[w].stage = "Production"
                             => registry'[w].stage = "Production"
          /\ (InRegisterModel(p) /\ ~run[p].promote)
               => /\ ~run[p].cd.called
                  /\ ~run'[p].cd.called
                  /\ run[p].prodRead = "none"
                  /\ ~run[p].promoted]_vars

\* two calls without promotion over a registry with a Production version:
\* the second staged its version and archived the first one's, and the
\* Production version is in place
C27_Witness ==
    \E p, q \in Procs :
        /\ p # q
        /\ Terminal(p)
        /\ ~run[p].promote
        /\ ~run[q].promote
        /\ run[p].ret = "version"
        /\ run[q].ret = "version"
        /\ StageOf(run[p].newVer) = "Staging"
        /\ StageOf(run[q].newVer) = "Archived"
        /\ StageOf(1) = "Production"
        /\ ~run[p].cd.called

\* C28 Accuracy fallback chain: the accuracy compared against is the tag of
\* the Production version when the tag is a number other than zero; in every
\* other case (tag missing, zero or not a number) the metric of its run is
\* used, and 0.0 only when the lookup of that metric fails or the run has
\* no such metric.  The comparison is always reached.
C28_AccuracyFallback ==
    \A p \in Procs :
        (run[p].prodRead = "found" /\ run[p].curAcc # NoAcc)
        => LET tag == registry[run[p].prod].tag
               metric == registry[run[p].prod].metric
           IN /\ tag \notin {NoTag, BadTag, 0}
                   => (run[p].curAcc = tag /\ run[p].lookup = "none")
              /\ tag \in {NoTag, BadTag, 0}
                   => \/ run[p].curAcc = metric /\ metric # NoMetric
                      \/ /\ run[p].curAcc = 0
                         /\ run[p].lookup = "failed" \/ metric = NoMetric
              /\ run[p].branch \in {"win", "lose"}
              /\ run[p].pmError \in {"none", "transition"}

\* C29 Training and evaluation failure: a run whose training or evaluation
\* raised ends FAILED without register_model having been called, the
\* exception that leaves the task is the original one also when marking the
\* tracking run failed, and the tracking run is marked (status FAILED for
\* training, evaluation_status=failed for evaluation) unless the marking
\* itself failed.
C29_TrainEvalFailure ==
    \A p \in Procs :
        run[p].failedAt \in {"train", "evaluate"}
        => /\ run[p].pc = "done"
           /\ run[p].outcome = "FAILED"
           /\ run[p].ret = "unset"
           /\ run[p].regCalls = 0
           /\ run[p].newVer = 0
           /\ run[p].raisedExc = "original"
           /\ run[p].failedAt = "train"
                => run[p].tracking \in {"FAILED", "unmarked"}
           /\ run[p].failedAt = "evaluate"
                => run[p].tracking \in {"evaluation_failed", "unmarked"}

\* C30 Version lifecycle: a version enters the registry in stage None, and
\* every step that changes the stage of a version moves it from None to
\* Staging, from None to Production, from Production to Archived or from
\* Staging to Archived; so no version goes from Production to Staging, and
\* none that was in Staging or Archived goes to Production.
C30_VersionLifecycle ==
    [][/\ DOMAIN registry \subseteq DOMAIN registry'
       /\ \A v \in DOMAIN registry' \ DOMAIN registry :
             registry'[v].stage = "None"
       /\ \A v \in DOMAIN registry :
             \/ registry'[v].stage = registry[v].stage
             \/ <<registry[v].stage, registry'[v].stage>>
                   \in {<<"None", "Staging">>, <<"None", "Production">>,
                        <<"Production", "Archived">>,
                        <<"Staging", "Archived">>}]_vars

\* one version was replaced in Production and archived, its successor is in
\* Production and a later candidate that did not beat it is in Staging
C30_Witness ==
    \E p, q \in Procs :
        /\ Len(registry) = 3
        /\ StageOf(1) = "Archived"
        /\ run[p].branch = "win"
        /\ run[p].prod = 1
        /\ StageOf(run[p].newVer) = "Production"
        /\ run[q].branch = "lose"
        /\ run[q].prod = run[p].newVer
        /\ StageOf(run[q].newVer) = "Staging"

\* C31 Terminal states: every started run eventually ends (DONE, the SKIP
\* path included, or FAILED); the step on which register_model returns ends
\* the run; and an ended run has no step of its own left: only a new call of
\* an entry point by the caller changes it.
C31_TerminalStates ==
    /\ \A p \in SeqProcs :
          (run[p].pc \notin {"idle", "done"})
             ~> (/\ run[p].pc = "done"
                 /\ run[p].outcome \in {"DONE", "SKIP", "FAILED",
                                        "RETURNED", "RAISED"})
    /\ [][\A p \in Procs :
             /\ (run[p].ret = "unset" /\ run'[p].ret # "unset")
                  => run'[p].pc = "done"
             /\ Terminal(p)
                  => \/ run'[p] = run[p]
                     \/ /\ started' = started + 1
                        /\ run'[p].pc \in {"set_uri", "register"}
                        /\ run'[p].outcome = "none"
                        /\ registry' = registry]_vars
    /\ [](\A p \in SeqProcs : Terminal(p) => ~ENABLED RunStep(p))

\* a flow run went through every stage and ended DONE with its version
\* registered
C31_Witness ==
    \E p \in Procs :
        /\ Terminal(p)
        /\ run[p].kind = "flow"
        /\ run[p].outcome = "DONE"
        /\ run[p].ret = "version"
        /\ run[p].cd.called
        /\ started = 1

\* C33: across promotion calls run one after another, whenever a version
\* replaces a Production version whose "accuracy" tag is a number, the new
\* version's accuracy is strictly higher than that tag; so from one state to
\* the next the accuracy tag of the Production version never decreases.
ReadableTag(tag) == tag \notin {NoTag, BadTag}

ProductionTags(reg) ==
    {reg[v].tag : v \in VersionsInStage(reg, "Production")}

C33_MonotoneProduction ==
    [][/\ \A p \in SeqProcs :
            (run[p].pc = "pm_win" /\ registry' # registry) =>
               \A v \in VersionsInStage(registry, "Production") :
                  ReadableTag(registry[v].tag) =>
                     /\ registry'[v].stage = "Archived"
                     /\ registry'[run[p].newVer].stage = "Production"
                     /\ registry'[run[p].newVer].tag > registry[v].tag
       /\ \A old \in ProductionTags(registry), new \in ProductionTags(registry') :
            (ReadableTag(old) /\ ReadableTag(new)) => new >= old
       /\ (ProductionTags(registry) # {}) => ProductionTags(registry') # {}
      ]_vars

\* a run has replaced a Production version tagged with the minimum training
\* accuracy by a version of higher accuracy
C33_Witness ==
    \E p \in SeqProcs :
       /\ run[p].branch = "win"
       /\ run[p].promoted
       /\ run[p].newVer > 1
       /\ StageOf(run[p].newVer) = "Production"
       /\ \E v \in 1..Len(registry) :
             /\ registry[v].stage = "Archived"
             /\ registry[v].tag = MIN_TRAINING_ACCURACY
             /\ registry[run[p].newVer].tag > registry[v].tag

\* C34: lost update under concurrency.  When two runs have read the same
\* Production version and both candidates beat it, neither transition to
\* Production is refused because of the other; the step of the second
\* transition leaves exactly one version in Production, the one of that
\* second run, and archives the version the first run promoted, whatever the
\* two accuracies are (C34_Witness: the archived one is the more accurate).
C34_LostUpdate ==
    /\ [][\A p, q \in Procs :
            (/\ p # q
             /\ run[p].pc = "pm_win"
             /\ run[p].prodRead = "found"
             /\ run[q].branch = "win"
             /\ run[q].promoted
             /\ run[q].prod = run[p].prod
             /\ ~run[p].promoted
             /\ run'[p].promoted)
            => /\ VersionsInStage(registry', "Production") = {run[p].newVer}
               /\ registry'[run[q].newVer].stage = "Archived"
               /\ registry'[run[p].prod].stage = "Archived"
               /\ registry'[run[p].newVer].tag = run[p].ev.accuracy
         ]_vars
    /\ [](\A p \in Procs :
            run[p].pc = "pm_win" =>
               ENABLED (PromoteWin(p) /\ run'[p].promoted))

\* both runs compared against the same Production version and won; the run
\* that transitioned last holds Production with a lower accuracy than the
\* version of the other run, which it archived
C34_Witness ==
    \E p, q \in Procs :
       /\ p # q
       /\ run[p].branch = "win" /\ run[p].promoted
       /\ run[q].branch = "win" /\ run[q].promoted
       /\ run[p].prod = run[q].prod
       /\ StageOf(run[p].prod) = "Archived"
       /\ VersionsInStage(registry, "Production") = {run[p].newVer}
       /\ StageOf(run[q].newVer) = "Archived"
       /\ registry[run[p].newVer].tag < registry[run[q].newVer].tag

\* C35: first-run fallback.  If the Production model cannot be loaded (none
\* exists, or the call fails), simulate_current_data returns the reference
\* dataset as the current dataset and raises nothing: the run has not failed
\* and stands at the decision stage; and the reference dataset is used as
\* current data in no other case.
C35_FirstRunFallback ==
    \A p \in SeqProcs :
       /\ run[p].prodLoad \in {"no_model", "load_raises"} =>
             /\ run[p].current = "reference"
             /\ run[p].pc = "decide"
             /\ run[p].outcome = "none"
             /\ run[p].failedAt = "none"
       /\ run[p].current = "reference" =>
             run[p].prodLoad \in {"no_model", "load_raises"}
       /\ run[p].failedAt = "simulate" => run[p].prodLoad = "loaded"

\* a run whose registry call for the Production model failed stands at the
\* decision stage with the reference data as current data
C35_Witness ==
    \E p \in SeqProcs :
       /\ run[p].prodLoad = "load_raises"
       /\ run[p].current = "reference"
       /\ run[p].pc = "decide"
       /\ run[p].kind = "flow"

\* C36: report-parsing defaults trigger retraining.  When the drift check
\* has produced its result: if the drift flag could not be extracted from
\* the report, data_drift_detected is True; if the accuracy figures could
\* not be extracted, current_accuracy is 0.0 and reference_accuracy 1.0; and
\* in either case the decision is to retrain.
C36_ParsingDefaults ==
    \A p \in SeqProcs :
       (run[p].kind = "flow" /\ run[p].analysis.engine = "ok") =>
          /\ run[p].analysis.drift \in {"nokey", "noresult"} =>
                run[p].analysis.data_drift_detected
          /\ run[p].analysis.accuracy = "missing" =>
                /\ run[p].analysis.current_accuracy = 0
                /\ run[p].analysis.reference_accuracy = 100
          /\ (\/ run[p].analysis.drift \in {"nokey", "noresult"}
              \/ run[p].analysis.accuracy = "missing") =>
                /\ run[p].retrain
                /\ run[p].outcome # "SKIP"

\* C37: Staging accumulates on the promotion path.  The step in which the
\* promotion logic sends the new version to Staging (after a losing
\* comparison, or as the fallback after a failure) changes the stage of no
\* other version: versions already in Staging stay in Staging, so several
\* versions can hold Staging at once (C37_Witness).
C37_StagingAccumulates ==
    [][\A p \in Procs :
          (/\ run[p].pc \in {"pm_lose", "pm_fallback"}
           /\ run'[p] # run[p]
           /\ registry' # registry)
          => /\ run[p].promote
             /\ DOMAIN registry' = DOMAIN registry
             /\ registry'[run[p].newVer].stage = "Staging"
             /\ \A w \in DOMAIN registry \ {run[p].newVer} :
                   registry'[w] = registry[w]
             /\ VersionsInStage(registry, "Staging")
                   \subseteq VersionsInStage(registry', "Staging")
      ]_vars

\* one run lost the comparison and another fell back after a failure; the
\* versions of both are in Staging next to the Production version
C37_Witness ==
    \E p, q \in Procs :
       /\ p # q
       /\ run[p].branch = "lose"
       /\ run[q].pmError # "none" /\ run[q].fallback = "done"
       /\ run[p].newVer # 0 /\ run[q].newVer # 0
       /\ run[q].newVer > run[p].newVer
       /\ StageOf(run[p].newVer) = "Staging"
       /\ StageOf(run[q].newVer) = "Staging"
       /\ VersionsInStage(registry, "Production") # {}

\* the task calls in front of the retraining pipeline, in the order of the
\* flow, and the calls a run can only enter from the one before
DataGates == {"ingest", "validate", "load_ref"}

EnteredFrom(stage) ==
    CASE stage = "ingest" -> "set_uri"
      [] stage = "validate" -> "ingest"
      [] stage = "load_ref" -> "validate"
      [] stage = "simulate" -> "load_ref"
      [] stage = "decide" -> "simulate"
      [] stage = "branch" -> "decide"
      [] stage = "preprocess" -> "branch"
      [] stage = "split" -> "preprocess"
      [] stage = "train" -> "split"

\* C38: force does not bypass the data gates.  A run with force_retrain true
\* enters raw-data loading, validation, reference loading, current-data
\* simulation and only then the retraining pipeline, each from the one
\* before; and when raw-data loading, validation or reference loading fails
\* (its task raises to the flow) the run ends FAILED there, having trained,
\* evaluated and registered nothing.
C38_ForceKeepsGates ==
    [][\A p \in SeqProcs :
          (run[p].kind = "flow" /\ run[p].force) =>
             /\ (/\ run'[p].pc # run[p].pc
                 /\ run'[p].pc \in DataGates \cup
                       {"simulate", "decide", "branch", "preprocess",
                        "split", "train"})
                  => /\ run[p].pc = EnteredFrom(run'[p].pc)
                     /\ run'[p].failedAt = "none"
                     /\ run'[p].force
             /\ (run[p].pc \in DataGates /\ run'[p].failedAt # "none")
                  => /\ run'[p].pc = "done"
                     /\ run'[p].outcome = "FAILED"
                     /\ run'[p].failedAt = run[p].pc
             /\ run[p].failedAt \in DataGates
                  => /\ run[p].pc = "done"
                     /\ run[p].outcome = "FAILED"
                     /\ run[p].tracking = "none"
                     /\ run[p].ev = NoEval
                     /\ run[p].newVer = 0
                     /\ run[p].regCalls = 0
                     /\ run'[p].pc \in {"done", "set_uri", "register"}
             /\ run[p].pc = "decide" => ~ENABLED CheckDriftAndPerformance(p)
      ]_vars

\* a forced run whose validation failed on both attempts after the raw data
\* was loaded: it is over, FAILED in VALIDATE, and has not trained
C38_Witness ==
    \E p \in SeqProcs :
       /\ run[p].kind = "flow"
       /\ run[p].force
       /\ run[p].pc = "done"
       /\ run[p].outcome = "FAILED"
       /\ run[p].failedAt = "validate"
       /\ run[p].valFailed
       /\ run[p].tracking = "none"

----------------------------------------------------------------------------
(* The inference service *)

\* C32: for /predict, /predict_batch and /models/info, when the model manager
\* raises, the response is status 500 with a fixed generic detail that is the
\* same for every exception text: two requests that differ only in the text
\* of the raised exception get identical response bodies, and the body never
\* carries the exception text.
C32_NoExceptionLeak ==
    /\ \A e \in ModelEndpoints :
         \A f, g \in svc.failures[e] :
            /\ f.response.status = 500
            /\ f.response.detail \notin ExcTexts
            /\ f.response = g.response
    /\ (svc.last.exc # "none") =>
          /\ svc.last.endpoint \in ModelEndpoints
          /\ svc.last.status = 500
          /\ svc.last.detail # svc.last.exc

\* each of the three endpoints has answered two requests whose exceptions
\* carried different texts
C32_Witness ==
    \A e \in ModelEndpoints :
       \E f, g \in svc.failures[e] : f.exc # g.exc

\* C39: /health reports status healthy and model_loaded true exactly when a
\* model manager exists and has a loaded model; while no model is loaded,
\* /predict, /predict_batch and /models/info answer 503 and never call the
\* model; a model-load failure at startup does not stop the service from
\* starting, and it then answers unhealthy.
C39_InferenceReadiness ==
    /\ (svc.last.endpoint = "/health") =>
          /\ (svc.last.detail = "healthy") <=> (svc.manager /\ svc.loaded)
          /\ svc.last.model_loaded <=> (svc.manager /\ svc.loaded)
          /\ svc.last.detail \in {"healthy", "unhealthy"}
    /\ (svc.last.endpoint \in ModelEndpoints /\ ~svc.loaded) =>
          /\ svc.last.status = 503
          /\ ~svc.last.called
    /\ (svc.startup = "raised") =>
          /\ svc.phase = "serving"
          /\ ~svc.manager /\ ~svc.loaded
          /\ (svc.last.endpoint = "/health") =>
                svc.last.detail = "unhealthy" /\ ~svc.last.model_loaded
    /\ (svc.phase = "serving" /\ svc.startup = "raised") =>
          ENABLED HealthCheck(1)

\* the model failed to load at startup, the service has refused a prediction
\* with 503 and then answered /health with unhealthy
C39_Witness ==
    /\ svc.startup = "raised"
    /\ svc.phase = "serving"
    /\ svc.last.endpoint = "/health"
    /\ svc.last.detail = "unhealthy"
    /\ ~svc.last.model_loaded

====
